---------------------------- MODULE Spec2Model ----------------------------
(***************************************************************************)
(* A model of saga-ts: SagaBuilder.step, SagaBuilder.run and the private   *)
(* SagaBuilder.rollback (the compensator), with the caller-supplied        *)
(* execute and rollback operations as black boxes that either return a     *)
(* value or raise one.  Saga 1 is the saga the caller builds and runs;     *)
(* saga 2 is the inner saga that a "nested" step of saga 1 builds and runs *)
(* inside its execute operation (the composition pattern of the tests).    *)
(***************************************************************************)
EXTENDS Integers, Sequences, FiniteSets, TLC

\* ------------------------------------------------------------------ bounds
MaxSteps == 3

MaxInnerSteps == 2

\* Steps of a builder on which run() is called a second time.
MaxRerunSteps == 1

\* Writes that the step code of one run makes through its context.
MaxCtxWrites == 1

\* ------------------------------------------------------------- JS values
Undefined == [t |-> "undefined"]

Null == [t |-> "null"]

Obj(n) == [t |-> "object", id |-> n]

Str(s) == [t |-> "string", s |-> s]

Num(n) == [t |-> "number", n |-> n]

\* Object.create(null): an object with no toString/valueOf to convert it.
BareObj == [t |-> "bareobject"]

\* An object whose toString() raises a value that is itself no error object
\* and has no text conversion: { toString() { throw Object.create(null) } }
ThrowingObj == [t |-> "throwingobject"]

Err(m) == [t |-> "Error", name |-> "Error", message |-> m]

TypeErr(m) == [t |-> "Error", name |-> "TypeError", message |-> m]

\* A caller-supplied closure, identified by the step it was registered
\* with.  kind "plain": a black box that returns or raises; kind "nested":
\* the closures of the nested-composition pattern.
ExecuteFn(s, i, kind) ==
    [t |-> "function", role |-> "execute", saga |-> s, step |-> i, kind |-> kind]

RollbackFn(s, i, kind) ==
    [t |-> "function", role |-> "rollback", saga |-> s, step |-> i, kind |-> kind]

Sagas == {1, 2}

Names == {"a", "b"}

Inputs == {Obj(7)}

Outputs == {Obj(1), Null, Undefined}

Raisable ==
    {Err("Step failed"), Str("String error"), Num(42), BareObj, ThrowingObj}

RollbackError == Err("Rollback failed")

\* `x instanceof Error`
InstanceOfError(v) == v.t = "Error"

\* `if (x)` on the values of this model
Truthy(v) == v.t \notin {"undefined", "null"}

\* `typeof x === "function"`
IsCallable(v) == v.t = "function"

Digit(d) ==
    CASE d = 0 -> "0" [] d = 1 -> "1" [] d = 2 -> "2" [] d = 3 -> "3"
      [] d = 4 -> "4" [] d = 5 -> "5" [] d = 6 -> "6" [] d = 7 -> "7"
      [] d = 8 -> "8" [] d = 9 -> "9"

RECURSIVE NumToString(_)
NumToString(n) ==
    IF n < 10 THEN Digit(n) ELSE NumToString(n \div 10) \o Digit(n % 10)

\* String(v): the text, or the value the conversion raises.
ToStringJS(v) ==
    CASE v.t = "string" -> [ok |-> TRUE, s |-> v.s]
      [] v.t = "number" -> [ok |-> TRUE, s |-> NumToString(v.n)]
      [] v.t = "null" -> [ok |-> TRUE, s |-> "null"]
      [] v.t = "undefined" -> [ok |-> TRUE, s |-> "undefined"]
      [] v.t = "object" -> [ok |-> TRUE, s |-> "[object Object]"]
      [] v.t = "Error" -> [ok |-> TRUE, s |-> v.name \o ": " \o v.message]
      [] v.t = "bareobject" ->
            [ok |-> FALSE,
             raised |-> TypeErr("Cannot convert object to primitive value")]
      [] v.t = "throwingobject" -> [ok |-> FALSE, raised |-> BareObj]

\* Faulty variant of NormalizeError: `new Error(String(error))` whatever was raised.
NormalizeErrorAlwaysWrap(v) ==
    IF ToStringJS(v).ok
    THEN [ok |-> TRUE, error |-> Err(ToStringJS(v).s)]
    ELSE [ok |-> FALSE, raised |-> ToStringJS(v).raised]

\* `error instanceof Error ? error : new Error(String(error))`
NormalizeError(v) ==
    IF InstanceOfError(v)
    THEN [ok |-> TRUE, error |-> v]
    ELSE IF ToStringJS(v).ok
         THEN [ok |-> TRUE, error |-> Err(ToStringJS(v).s)]
         ELSE [ok |-> FALSE, raised |-> ToStringJS(v).raised]

\* `obj.key` : undefined when the object has no such property
GetProp(obj, key) == IF key \in DOMAIN obj THEN obj[key] ELSE Undefined

\* ------------------------------------------------------------------ state
VARIABLES
    steps,          \* steps[s]: this.steps of saga s's builder
    pc,             \* pc[s]: where saga s's run() is
    idx,            \* idx[s]: position of the for-of loop of run()
    results,        \* results[s]: the results map of the run
    executedSteps,  \* executedSteps[s]: the executed-steps list of the run
    lastOutput,     \* lastOutput[s]
    caught,         \* caught[s]: the value bound by the inner catch
    rbIdx,          \* rbIdx[s]: i of the loop of rollback()
    result,         \* result[s]: what run() resolved to
    trace,          \* caller-supplied operations in the order invoked
    reports,        \* console.error calls, in order
    caller,         \* what the caller of saga 1 did after run() resolved
    chain           \* the step() calls on each builder: the reference each
                    \* was made through and the reference it returned

vars == <<steps, pc, idx, results, executedSteps, lastOutput, caught, rbIdx,
          result, trace, reports, caller, chain>>

Pending == [status |-> "pending"]

EmptyMap == [n \in {} |-> Undefined]

NoCaller == [called |-> FALSE]

Init ==
    /\ steps = [s \in Sagas |-> <<>>]
    /\ pc = [s \in Sagas |-> IF s = 1 THEN "build" ELSE "idle"]
    /\ idx = [s \in Sagas |-> 1]
    /\ results = [s \in Sagas |-> EmptyMap]
    /\ executedSteps = [s \in Sagas |-> <<>>]
    /\ lastOutput = [s \in Sagas |-> Undefined]
    /\ caught = [s \in Sagas |-> Undefined]
    /\ rbIdx = [s \in Sagas |-> 0]
    /\ result = [s \in Sagas |-> Pending]
    /\ trace = <<>>
    /\ reports = <<>>
    /\ caller = NoCaller
    /\ chain = [s \in Sagas |-> <<>>]

\* An entry of the trace: a caller-supplied closure f was invoked with arg
\* ("execute", "rollback"), or its awaited call completed with arg
\* ("returned", "raised", "rollbackReturned", "rollbackRaised").
Event(op, f, arg) == [op |-> op, saga |-> f.saga, step |-> f.step, arg |-> arg]

StepBound(s) == IF s = 1 THEN MaxSteps ELSE MaxInnerSteps

\* --------------------------------------------------------- SagaBuilder.step
\* this.steps.push({name, input, execute, rollback}); return this
PushStep(s, name, input, kind, hasRollback) ==
    LET i == Len(steps[s]) + 1 IN
    steps' = [steps EXCEPT ![s] = Append(@,
                [name |-> name,
                 input |-> input,
                 execute |-> ExecuteFn(s, i, kind),
                 rollback |-> IF hasRollback THEN RollbackFn(s, i, kind)
                                             ELSE Undefined])]

\* The SagaBuilder object made by createSaga() for saga s, as a reference.
BuilderRef(s) == [t |-> "builder", saga |-> s]

\* `return this`: the call, made through the reference that call number via
\* returned (0: the reference createSaga() returned), returns the builder
\* it was made on.
ReturnThis(s, via) ==
    chain' = [chain EXCEPT ![s] = Append(@, [via |-> via, ret |-> BuilderRef(s)])]

\* step() called through a reference returned earlier than by the latest
\* call: `base.step(X); base.step(Y)`.
StepVia(s, name, input, hasRollback, via) ==
    /\ pc[s] = "build"
    /\ Len(steps[s]) < StepBound(s)
    /\ via \in 0..(Len(chain[s]) - 1)
    /\ PushStep(s, name, input, "plain", hasRollback)
    /\ ReturnThis(s, via)
    /\ UNCHANGED <<pc, idx, results, executedSteps, lastOutput, caught, rbIdx,
                   result, trace, reports, caller>>

\* step() in a fluent chain: called on what the latest call returned.
Step(s, name, input, hasRollback) ==
    /\ pc[s] = "build"
    /\ Len(steps[s]) < StepBound(s)
    /\ PushStep(s, name, input, "plain", hasRollback)
    /\ ReturnThis(s, Len(chain[s]))
    /\ UNCHANGED <<pc, idx, results, executedSteps, lastOutput, caught, rbIdx,
                   result, trace, reports, caller>>

\* The outer step of the nested-composition pattern: its execute builds and
\* runs an inner saga, its rollback invokes the captured inner rollback.
StepNested(name, input) ==
    /\ pc[1] = "build"
    /\ Len(steps[1]) < StepBound(1)
    /\ \A i \in 1..Len(steps[1]) : steps[1][i].execute.kind = "plain"
    /\ PushStep(1, name, input, "nested", TRUE)
    /\ ReturnThis(1, Len(chain[1]))
    /\ UNCHANGED <<pc, idx, results, executedSteps, lastOutput, caught, rbIdx,
                   result, trace, reports, caller>>

\* ---------------------------------------------------------- SagaBuilder.run
\* run() is entered: results = {}, executedSteps = [], lastOutput = undefined
Run(s) ==
    /\ pc[s] = "build"
    /\ pc' = [pc EXCEPT ![s] = "loop"]
    /\ idx' = [idx EXCEPT ![s] = 1]
    /\ results' = [results EXCEPT ![s] = EmptyMap]
    /\ executedSteps' = [executedSteps EXCEPT ![s] = <<>>]
    /\ lastOutput' = [lastOutput EXCEPT ![s] = Undefined]
    /\ UNCHANGED <<chain, steps, caught, rbIdx, result, trace, reports, caller>>

\* The results object of run s, as a reference: whoever holds it reads the
\* map as it is at the time of reading.
ResultsRef(s) == [t |-> "ref", saga |-> s]

Deref(ref) == results[ref.saga]

\* `const ctx = { results }`: a new object whose results property is the
\* results object of the run itself.
MakeContext(s) == [results |-> ResultsRef(s)]

\* The for-of loop has a next step: step.execute(step.input, ctx) is invoked
\* and awaited.  A nested step's execute starts with createSaga().
InvokeExecute(s) ==
    /\ pc[s] = "loop"
    /\ idx[s] <= Len(steps[s])
    /\ LET step == steps[s][idx[s]] IN
       /\ trace' = Append(trace, Event("execute", step.execute, step.input)
                                    @@ [ctx |-> MakeContext(s)])
       /\ pc' = IF step.execute.kind = "nested"
                THEN [pc EXCEPT ![s] = "awaitExec", ![2] = "build"]
                ELSE [pc EXCEPT ![s] = "awaitExec"]
    /\ UNCHANGED <<chain, steps, idx, results, executedSteps, lastOutput, caught,
                   rbIdx, result, reports, caller>>

\* Faulty variant of StoreResult: an existing entry is kept.
StoreResultKeepFirst(map, name, output) == map @@ (name :> output)

\* Faulty variant of StoreResult: a name already present gets a new key,
\* `results[name in results ? name + "_2" : name] = output`.
StoreResultSuffixed(map, name, output) ==
    IF name \in DOMAIN map THEN ((name \o "_2") :> output) @@ map
    ELSE (name :> output) @@ map

\* Faulty variant of StoreResult: `results = {[step.name]: output}`.
StoreResultFresh(map, name, output) == name :> output

\* results[step.name] = output
StoreResult(map, name, output) == (name :> output) @@ map

\* Faulty variant of PushExecuted: unshift instead of push.
PushExecutedFront(list, step, output) ==
    <<[name |-> step.name, output |-> output, rollback |-> step.rollback]>>
        \o list

\* Faulty variant of PushExecuted: the record keeps the input of the step.
PushExecutedInput(list, step, output) ==
    Append(list, [name |-> step.name, output |-> step.input,
                  rollback |-> step.rollback])

\* executedSteps.push({name, output, rollback})
PushExecuted(list, step, output) ==
    Append(list, [name |-> step.name, output |-> output,
                  rollback |-> step.rollback])

\* The awaited execute resolved with output: lines 74-81, then the loop
\* moves to the next step.
OnExecuteSuccess(s, output) ==
    LET step == steps[s][idx[s]] IN
    /\ results' = [results EXCEPT ![s] = StoreResult(@, step.name, output)]
    /\ lastOutput' = [lastOutput EXCEPT ![s] = output]
    /\ executedSteps' = [executedSteps EXCEPT ![s] = PushExecuted(@, step, output)]
    /\ idx' = [idx EXCEPT ![s] = @ + 1]
    /\ pc' = [pc EXCEPT ![s] = "loop"]
    /\ trace' = Append(trace, Event("returned", step.execute, output))
    /\ UNCHANGED <<chain, steps, caught, rbIdx, result, reports, caller>>

\* rollback(): `let i = executedSteps.length - 1` (1-based here)
RollbackFirst(list) == Len(list)

\* rollback(): `i--`
RollbackNext(i) == i - 1

\* Faulty variant of OnExecuteFailure: the record of the step is pushed before its
\* execute is awaited, so the failing step is compensated too.
OnExecuteFailureAfterPush(s, v) ==
    /\ caught' = [caught EXCEPT ![s] = v]
    /\ executedSteps' = [executedSteps EXCEPT ![s] =
                            PushExecuted(@, steps[s][idx[s]], Undefined)]
    /\ rbIdx' = [rbIdx EXCEPT ![s] = RollbackFirst(executedSteps'[s])]
    /\ pc' = [pc EXCEPT ![s] = "rb"]
    /\ trace' = Append(trace, Event("raised", steps[s][idx[s]].execute, v))
    /\ UNCHANGED <<chain, steps, idx, results, lastOutput, result, reports, caller>>

\* Faulty variant of OnExecuteFailure: the failure is swallowed and the loop goes on.
OnExecuteFailureContinue(s, v) ==
    /\ caught' = [caught EXCEPT ![s] = v]
    /\ idx' = [idx EXCEPT ![s] = @ + 1]
    /\ pc' = [pc EXCEPT ![s] = "loop"]
    /\ trace' = Append(trace, Event("raised", steps[s][idx[s]].execute, v))
    /\ UNCHANGED <<chain, steps, results, executedSteps, lastOutput, rbIdx, result,
                   reports, caller>>

\* Faulty variant of OnExecuteFailure: this.rollback(executedSteps) is not
\* awaited, the failed value is returned while the compensation goes on.
OnExecuteFailureNoAwait(s, v) ==
    /\ caught' = [caught EXCEPT ![s] = v]
    /\ rbIdx' = [rbIdx EXCEPT ![s] = RollbackFirst(executedSteps[s])]
    /\ pc' = [pc EXCEPT ![s] = "rb"]
    /\ result' = [result EXCEPT ![s] =
                     [status |-> "failed",
                      error |-> IF NormalizeError(v).ok
                                THEN NormalizeError(v).error ELSE v,
                      failedAt |-> steps[s][idx[s]].name]]
    /\ trace' = Append(trace, Event("raised", steps[s][idx[s]].execute, v))
    /\ UNCHANGED <<chain, steps, idx, results, executedSteps, lastOutput, reports,
                   caller>>

\* The awaited execute raised v: the inner catch binds it and enters
\* this.rollback(executedSteps).
OnExecuteFailure(s, v) ==
    /\ caught' = [caught EXCEPT ![s] = v]
    /\ rbIdx' = [rbIdx EXCEPT ![s] = RollbackFirst(executedSteps[s])]
    /\ pc' = [pc EXCEPT ![s] = "rb"]
    /\ trace' = Append(trace, Event("raised", steps[s][idx[s]].execute, v))
    /\ UNCHANGED <<chain, steps, idx, results, executedSteps, lastOutput, result,
                   reports, caller>>

ExecuteReturns(s, output) ==
    /\ pc[s] = "awaitExec"
    /\ steps[s][idx[s]].execute.kind = "plain"
    /\ OnExecuteSuccess(s, output)

ExecuteRaises(s, v) ==
    /\ pc[s] = "awaitExec"
    /\ steps[s][idx[s]].execute.kind = "plain"
    /\ OnExecuteFailure(s, v)

\* Faulty variant of SuccessValue: `data: lastOutput ?? null`.
SuccessValueNullish(s) ==
    [status |-> "success",
     data |-> IF lastOutput[s] = Undefined THEN Null ELSE lastOutput[s],
     results |-> results[s]]

\* Faulty variant of ReturnSuccess: the compensation is entered when the
\* loop is over, too.
ReturnSuccessCompensates(s) ==
    /\ pc[s] = "loop"
    /\ idx[s] > Len(steps[s])
    /\ rbIdx' = [rbIdx EXCEPT ![s] = RollbackFirst(executedSteps[s])]
    /\ pc' = [pc EXCEPT ![s] = "rb"]
    /\ UNCHANGED <<chain, steps, idx, results, executedSteps, lastOutput,
                   caught, result, trace, reports, caller>>

\* The loop is over: return {status: 'success', data, results}
SuccessValue(s) ==
    [status |-> "success", data |-> lastOutput[s], results |-> results[s]]

ReturnSuccess(s) ==
    /\ pc[s] = "loop"
    /\ idx[s] > Len(steps[s])
    /\ result' = [result EXCEPT ![s] = SuccessValue(s)]
    /\ pc' = [pc EXCEPT ![s] = "done"]
    /\ UNCHANGED <<chain, steps, idx, results, executedSteps, lastOutput, caught,
                   rbIdx, trace, reports, caller>>

\* ----------------------------------------------------- SagaBuilder.rollback
\* Faulty variant of RollbackSkip: a record without rollback ends the loop.
RollbackSkipBreaks(s) ==
    /\ pc[s] = "rb"
    /\ rbIdx[s] >= 1
    /\ ~Truthy(executedSteps[s][rbIdx[s]].rollback)
    /\ rbIdx' = [rbIdx EXCEPT ![s] = 0]
    /\ UNCHANGED <<chain, steps, pc, idx, results, executedSteps, lastOutput, caught,
                   result, trace, reports, caller>>

\* `if (step.rollback)` is false: nothing is invoked for this record
RollbackSkip(s) ==
    /\ pc[s] = "rb"
    /\ rbIdx[s] >= 1
    /\ ~Truthy(executedSteps[s][rbIdx[s]].rollback)
    /\ rbIdx' = [rbIdx EXCEPT ![s] = RollbackNext(@)]
    /\ UNCHANGED <<chain, steps, pc, idx, results, executedSteps, lastOutput, caught,
                   result, trace, reports, caller>>

\* what step.rollback is called with
RollbackArg(rec) == rec.output

\* Faulty variant of InvokeRollback: `step.rollback(step.output)` without
\* await, the loop goes to the next record at once.
InvokeRollbackNoAwait(s) ==
    /\ pc[s] = "rb"
    /\ rbIdx[s] >= 1
    /\ LET rec == executedSteps[s][rbIdx[s]] IN
       /\ Truthy(rec.rollback)
       /\ trace' = Append(trace, Event("rollback", rec.rollback, RollbackArg(rec)))
    /\ rbIdx' = [rbIdx EXCEPT ![s] = RollbackNext(@)]
    /\ UNCHANGED <<chain, steps, pc, idx, results, executedSteps, lastOutput, caught,
                   result, reports, caller>>

\* `await step.rollback(step.output)` is invoked
InvokeRollback(s) ==
    /\ pc[s] = "rb"
    /\ rbIdx[s] >= 1
    /\ LET rec == executedSteps[s][rbIdx[s]] IN
       /\ Truthy(rec.rollback)
       /\ trace' = Append(trace, Event("rollback", rec.rollback, RollbackArg(rec)))
    /\ pc' = [pc EXCEPT ![s] = "awaitRb"]
    /\ UNCHANGED <<chain, steps, idx, results, executedSteps, lastOutput, caught,
                   rbIdx, result, reports, caller>>

\* the awaited rollback resolved
OnRollbackSuccess(s) ==
    /\ rbIdx' = [rbIdx EXCEPT ![s] = RollbackNext(@)]
    /\ pc' = [pc EXCEPT ![s] = "rb"]
    /\ trace' = Append(trace, Event("rollbackReturned",
                                    executedSteps[s][rbIdx[s]].rollback, Undefined))
    /\ UNCHANGED <<chain, steps, idx, results, executedSteps, lastOutput, caught,
                   result, reports, caller>>

\* Faulty variant of OnRollbackFailure: no try/catch around the rollback call, so
\* the error leaves rollback() and the inner catch, and the outer catch of
\* run() returns it.
OnRollbackFailureEscapes(s, e) ==
    /\ result' = [result EXCEPT ![s] =
                     [status |-> "failed", error |-> e, failedAt |-> "orchestrator"]]
    /\ pc' = [pc EXCEPT ![s] = "done"]
    /\ trace' = Append(trace, Event("rollbackRaised",
                                    executedSteps[s][rbIdx[s]].rollback, e))
    /\ UNCHANGED <<chain, steps, idx, results, executedSteps, lastOutput, caught,
                   rbIdx, reports, caller>>

\* Faulty variant of OnRollbackFailure: `catch {}` without console.error.
OnRollbackFailureSilent(s, e) ==
    /\ rbIdx' = [rbIdx EXCEPT ![s] = RollbackNext(@)]
    /\ pc' = [pc EXCEPT ![s] = "rb"]
    /\ trace' = Append(trace, Event("rollbackRaised",
                                    executedSteps[s][rbIdx[s]].rollback, e))
    /\ UNCHANGED <<chain, steps, idx, results, executedSteps, lastOutput,
                   caught, result, reports, caller>>

\* Faulty variant of OnRollbackFailure: the failed rollback is tried again.
OnRollbackFailureRetries(s, e) ==
    /\ reports' = Append(reports, [saga |-> s,
                                   name |-> executedSteps[s][rbIdx[s]].name,
                                   error |-> e])
    /\ pc' = [pc EXCEPT ![s] = "rb"]
    /\ trace' = Append(trace, Event("rollbackRaised",
                                    executedSteps[s][rbIdx[s]].rollback, e))
    /\ UNCHANGED <<chain, steps, idx, results, executedSteps, lastOutput, caught,
                   rbIdx, result, caller>>

\* Faulty variant of OnRollbackFailure: the failure is reported and the loop is left.
OnRollbackFailureBreaks(s, e) ==
    /\ reports' = Append(reports, [saga |-> s,
                                   name |-> executedSteps[s][rbIdx[s]].name,
                                   error |-> e])
    /\ rbIdx' = [rbIdx EXCEPT ![s] = 0]
    /\ pc' = [pc EXCEPT ![s] = "rb"]
    /\ trace' = Append(trace, Event("rollbackRaised",
                                    executedSteps[s][rbIdx[s]].rollback, e))
    /\ UNCHANGED <<chain, steps, idx, results, executedSteps, lastOutput, caught,
                   result, caller>>

\* the awaited rollback raised e: catch, console.error, next record
OnRollbackFailure(s, e) ==
    /\ reports' = Append(reports, [saga |-> s,
                                   name |-> executedSteps[s][rbIdx[s]].name,
                                   error |-> e])
    /\ rbIdx' = [rbIdx EXCEPT ![s] = RollbackNext(@)]
    /\ pc' = [pc EXCEPT ![s] = "rb"]
    /\ trace' = Append(trace, Event("rollbackRaised",
                                    executedSteps[s][rbIdx[s]].rollback, e))
    /\ UNCHANGED <<chain, steps, idx, results, executedSteps, lastOutput, caught,
                   result, caller>>

RollbackReturns(s) ==
    /\ pc[s] = "awaitRb"
    /\ executedSteps[s][rbIdx[s]].rollback.kind = "plain"
    /\ OnRollbackSuccess(s)

RollbackRaises(s) ==
    /\ pc[s] = "awaitRb"
    /\ executedSteps[s][rbIdx[s]].rollback.kind = "plain"
    /\ OnRollbackFailure(s, RollbackError)

\* How run() settles once this.rollback() has returned: the inner catch's
\* return; the outer catch's return when the normalization in the inner
\* catch raises; and, when the normalization in the outer catch raises too,
\* the promise of run() is rejected with what it raised.
FailedValue(s) ==
    LET n == NormalizeError(caught[s]) IN
    IF n.ok
    THEN [status |-> "failed", error |-> n.error,
          failedAt |-> steps[s][idx[s]].name]
    ELSE LET m == NormalizeError(n.raised) IN
         IF m.ok
         THEN [status |-> "failed", error |-> m.error,
               failedAt |-> "orchestrator"]
         ELSE [status |-> "rejected", error |-> m.raised]

ReturnFailed(s) ==
    /\ pc[s] = "rb"
    /\ rbIdx[s] < 1
    /\ result' = [result EXCEPT ![s] = FailedValue(s)]
    /\ pc' = [pc EXCEPT ![s] = "done"]
    /\ UNCHANGED <<chain, steps, idx, results, executedSteps, lastOutput, caught,
                   rbIdx, trace, reports, caller>>

\* ------------------------------------------------- the callers in the tests
\* `await innerSagaResult.rollback()` after a successful run: calling a
\* value that is not a function raises a TypeError in the caller.
CallBoundRollback ==
    /\ pc[1] = "done"
    /\ result[1].status = "success"
    /\ ~caller.called
    /\ caller' = [called |-> TRUE,
                  raised |-> IF IsCallable(GetProp(result[1], "rollback"))
                             THEN Undefined
                             ELSE TypeErr("result.rollback is not a function")]
    /\ UNCHANGED <<chain, steps, pc, idx, results, executedSteps, lastOutput, caught,
                   rbIdx, result, trace, reports>>

\* The nested step's execute after `await createSaga()...run()`: it raises
\* when the inner saga failed (or when the awaited run() was rejected), else
\* returns the inner results and the inner result's rollback property.
NestedOutput(inner) ==
    [t |-> "object", innerResults |-> inner.results,
     innerRollback |-> GetProp(inner, "rollback")]

NestedExecuteCompletes ==
    /\ pc[1] = "awaitExec"
    /\ steps[1][idx[1]].execute.kind = "nested"
    /\ pc[2] = "done"
    /\ CASE result[2].status = "failed" ->
                OnExecuteFailure(1, Err("Inner saga failed"))
         [] result[2].status = "rejected" ->
                OnExecuteFailure(1, result[2].error)
         [] result[2].status = "success" ->
                OnExecuteSuccess(1, NestedOutput(result[2]))

\* The nested step's rollback: `await output.innerRollback()`.
NestedRollbackCompletes ==
    /\ pc[1] = "awaitRb"
    /\ executedSteps[1][rbIdx[1]].rollback.kind = "nested"
    /\ IF IsCallable(executedSteps[1][rbIdx[1]].output.innerRollback)
       THEN OnRollbackSuccess(1)
       ELSE OnRollbackFailure(1, TypeErr("output.innerRollback is not a function"))

\* ------------------------------------------- step code that writes its context
\* A value that no execute returns.
Tampered == Str("tampered")

CtxWrites(s) ==
    Len(SelectSeq(trace, LAMBDA e :
            e.saga = s /\ e.op \in {"ctxWrite", "ctxDelete"}))

\* The running execute does `ctx.results[n] = v`: ctx.results is the results
\* object of the run, so the assignment lands there.
CtxWrite(s, n, v) ==
    /\ pc[s] = "awaitExec"
    /\ steps[s][idx[s]].execute.kind = "plain"
    /\ CtxWrites(s) < MaxCtxWrites
    /\ LET ref == MakeContext(s).results IN
       results' = [results EXCEPT ![ref.saga] = StoreResult(@, n, v)]
    /\ trace' = Append(trace, Event("ctxWrite", steps[s][idx[s]].execute,
                                    [name |-> n, value |-> v]))
    /\ UNCHANGED <<chain, steps, pc, idx, executedSteps, lastOutput, caught, rbIdx,
                   result, reports, caller>>

\* The running execute does `delete ctx.results[n]`.
CtxDelete(s, n) ==
    /\ pc[s] = "awaitExec"
    /\ steps[s][idx[s]].execute.kind = "plain"
    /\ CtxWrites(s) < MaxCtxWrites
    /\ n \in DOMAIN results[s]
    /\ LET ref == MakeContext(s).results IN
       results' = [results EXCEPT ![ref.saga] =
                      [m \in DOMAIN @ \ {n} |-> @[m]]]
    /\ trace' = Append(trace, Event("ctxDelete", steps[s][idx[s]].execute,
                                    [name |-> n]))
    /\ UNCHANGED <<chain, steps, pc, idx, executedSteps, lastOutput, caught, rbIdx,
                   result, reports, caller>>

\* ------------------------------------------------------------ specification
Next ==
    \/ \E s \in Sagas, n \in Names, i \in Inputs, rb \in BOOLEAN : Step(s, n, i, rb)
    \/ \E s \in Sagas : Run(s)
    \/ \E s \in Sagas : InvokeExecute(s)
    \/ \E s \in Sagas, o \in Outputs : ExecuteReturns(s, o)
    \/ \E s \in Sagas, v \in Raisable : ExecuteRaises(s, v)
    \/ \E s \in Sagas : ReturnSuccess(s)
    \/ \E s \in Sagas : RollbackSkip(s)
    \/ \E s \in Sagas : InvokeRollback(s)
    \/ \E s \in Sagas : RollbackReturns(s)
    \/ \E s \in Sagas : RollbackRaises(s)
    \/ \E s \in Sagas : ReturnFailed(s)
    \/ CallBoundRollback

Spec == Init /\ [][Next]_vars

NextNested ==
    \/ Next
    \/ \E n \in Names, i \in Inputs : StepNested(n, i)
    \/ NestedExecuteCompletes
    \/ NestedRollbackCompletes

SpecNested == Init /\ [][NextNested]_vars

\* Runs whose step code may write and delete through the context it was given.
NextCtxWrite ==
    \/ Next
    \/ \E s \in Sagas, n \in Names : CtxWrite(s, n, Tampered)
    \/ \E s \in Sagas, n \in Names : CtxDelete(s, n)

SpecCtxWrite == Init /\ [][NextCtxWrite]_vars

\* ------------------------------------------------ a second run() of a builder
\* The step as the for-of loop of run frame r reads it from this.steps: the
\* same record, its closures marked with the frame that calls them, so that
\* the trace tells the calls of two runs apart.
InFrame(step, r) ==
    [step EXCEPT !.execute = [@ EXCEPT !.saga = r],
                 !.rollback = IF @ = Undefined THEN @ ELSE [@ EXCEPT !.saga = r]]

\* Faulty variant of RunSecond: results and executedSteps are fields of the
\* builder that run() does not reset.
RunSecondSharedState ==
    /\ pc[1] \notin {"build", "idle"}
    /\ pc[2] = "idle"
    /\ Len(steps[1]) <= MaxRerunSteps
    /\ steps' = [steps EXCEPT ![2] = [j \in 1..Len(steps[1]) |-> InFrame(steps[1][j], 2)]]
    /\ pc' = [pc EXCEPT ![2] = "loop"]
    /\ idx' = [idx EXCEPT ![2] = 1]
    /\ results' = [results EXCEPT ![2] = results[1]]
    /\ executedSteps' = [executedSteps EXCEPT ![2] = executedSteps[1]]
    /\ lastOutput' = [lastOutput EXCEPT ![2] = lastOutput[1]]
    /\ UNCHANGED <<chain, caught, rbIdx, result, trace, reports, caller>>

\* run() is called again on the builder of saga 1, while its first run is at
\* an await or after it has returned.  The call has its own frame (frame 2):
\* its own results, executedSteps and lastOutput (lines 56-63), and iterates
\* the steps of the builder (no step is appended once run() was called, so
\* the frame's steps are those of the builder throughout).
RunSecond ==
    /\ pc[1] \notin {"build", "idle"}
    /\ pc[2] = "idle"
    /\ Len(steps[1]) <= MaxRerunSteps
    /\ steps' = [steps EXCEPT ![2] = [j \in 1..Len(steps[1]) |-> InFrame(steps[1][j], 2)]]
    /\ pc' = [pc EXCEPT ![2] = "loop"]
    /\ idx' = [idx EXCEPT ![2] = 1]
    /\ results' = [results EXCEPT ![2] = EmptyMap]
    /\ executedSteps' = [executedSteps EXCEPT ![2] = <<>>]
    /\ lastOutput' = [lastOutput EXCEPT ![2] = Undefined]
    /\ UNCHANGED <<chain, caught, rbIdx, result, trace, reports, caller>>

\* What the executes return in run frame r: a value that tells the run.
OutputInRun(r) == Obj(r)

\* Two runs of one builder, sequential or interleaved at their awaits.
NextRuns ==
    \/ \E n \in Names, i \in Inputs, rb \in BOOLEAN : Step(1, n, i, rb)
    \/ Run(1)
    \/ RunSecond
    \/ \E s \in Sagas : InvokeExecute(s)
    \/ \E s \in Sagas : ExecuteReturns(s, OutputInRun(s))
    \/ \E s \in Sagas : ExecuteRaises(s, Err("Step failed"))
    \/ \E s \in Sagas : ReturnSuccess(s)
    \/ \E s \in Sagas : RollbackSkip(s)
    \/ \E s \in Sagas : InvokeRollback(s)
    \/ \E s \in Sagas : RollbackReturns(s)
    \/ \E s \in Sagas : RollbackRaises(s)
    \/ \E s \in Sagas : ReturnFailed(s)

SpecRuns == Init /\ [][NextRuns]_vars

\* A step of run() or rollback() between two awaits: the event loop runs it.
EngineStep(s) ==
    \/ InvokeExecute(s)
    \/ ReturnSuccess(s)
    \/ RollbackSkip(s)
    \/ InvokeRollback(s)
    \/ ReturnFailed(s)

\* The awaited caller-supplied operation completes, by returning or failing.
Completion(s) ==
    \/ \E o \in Outputs : ExecuteReturns(s, o)
    \/ \E v \in Raisable : ExecuteRaises(s, v)
    \/ RollbackReturns(s)
    \/ RollbackRaises(s)

\* Runs in which the engine is scheduled and every invoked execute and
\* rollback eventually completes.
SpecLive ==
    Spec /\ \A s \in Sagas : WF_vars(EngineStep(s)) /\ WF_vars(Completion(s))

\* Callers that keep a builder reference and append through it again.
NextChains ==
    \/ Next
    \/ \E s \in Sagas, n \in Names, i \in Inputs, rb \in BOOLEAN :
          \E via \in 0..MaxSteps : StepVia(s, n, i, rb, via)

SpecChains == Init /\ [][NextChains]_vars



\* ------------------------------------------------------- reading the trace
\* The events of kind op of saga s, in the order they happened.
Ops(s, op) == SelectSeq(trace, LAMBDA e : e.saga = s /\ e.op = op)

StepsOf(events) == [p \in 1..Len(events) |-> events[p].step]

IsPrefix(a, b) == Len(a) <= Len(b) /\ \A p \in 1..Len(a) : a[p] = b[p]

\* The registered steps k, k-1, ..., 1 of saga s that have a rollback.
RECURSIVE DescWithRollback(_, _)
DescWithRollback(s, k) ==
    IF k < 1 THEN <<>>
    ELSE (IF steps[s][k].rollback = Undefined THEN <<>> ELSE <<k>>)
            \o DescWithRollback(s, k - 1)

Failed(s) == result[s].status = "failed"

Succeeded(s) == result[s].status = "success"

\* The run of saga s has seen an execute fail (the failing step is idx[s]).
Compensating(s) == pc[s] \in {"rb", "awaitRb"} \/ Failed(s)

\* ----------------------------------------------------------------- claims
\* C1: when step k's execute fails, the rollbacks of the succeeded steps
\* 1..k-1 that have one are invoked in the order k-1, k-2, ..., 1: at any
\* moment of the compensation the rollbacks invoked so far are a prefix of
\* that order, and when run() has returned failed they are all of it.
RollbackInReverseOrder ==
    \A s \in Sagas :
        /\ Compensating(s) =>
              IsPrefix(StepsOf(Ops(s, "rollback")), DescWithRollback(s, idx[s] - 1))
        /\ Failed(s) =>
              StepsOf(Ops(s, "rollback")) = DescWithRollback(s, idx[s] - 1)

\* Step 3 failed after steps 1 and 2 succeeded, both with a rollback.
RollbackInReverseOrderWitness ==
    /\ Failed(1)
    /\ idx[1] = 3
    /\ StepsOf(Ops(1, "rollback")) = <<2, 1>>

\* C2: once step k's execute has failed, the executes invoked in the run are
\* those of steps 1..k and no other, the executed-steps list holds the
\* records of steps 1..k-1 only, and no rollback of step k or of a later
\* step is invoked.
HaltOnFirstFailure ==
    \A s \in Sagas :
        Compensating(s) =>
            /\ StepsOf(Ops(s, "execute")) = [p \in 1..idx[s] |-> p]
            /\ Len(executedSteps[s]) = idx[s] - 1
            /\ \A j \in 1..Len(executedSteps[s]) :
                  /\ executedSteps[s][j].name = steps[s][j].name
                  /\ executedSteps[s][j].rollback = steps[s][j].rollback
            /\ \A p \in 1..Len(trace) :
                  (trace[p].saga = s /\ trace[p].op = "rollback")
                      => trace[p].step < idx[s]

\* The failing step has a rollback of its own and is not the last one
\* registered.
HaltOnFirstFailureWitness ==
    /\ Failed(1)
    /\ idx[1] < Len(steps[1])
    /\ steps[1][idx[1]].rollback # Undefined
    /\ Len(Ops(1, "rollback")) >= 1

\* C5: the executes of a run are invoked in registration order, 1, 2, 3, ...,
\* each with the input registered for it, and the execute of step i+1 is
\* invoked only after the execute of step i has returned.
ForwardInRegistrationOrder ==
    \A s \in Sagas :
        /\ StepsOf(Ops(s, "execute")) = [p \in 1..Len(Ops(s, "execute")) |-> p]
        /\ \A p \in 1..Len(trace) :
              (trace[p].saga = s /\ trace[p].op = "execute") =>
                  /\ trace[p].arg = steps[s][trace[p].step].input
                  /\ trace[p].step > 1 =>
                        \E q \in 1..(p - 1) :
                            /\ trace[q].saga = s
                            /\ trace[q].op = "returned"
                            /\ trace[q].step = trace[p].step - 1

\* All three registered steps had their execute invoked.
ForwardInRegistrationOrderWitness ==
    /\ Len(steps[1]) = 3
    /\ StepsOf(Ops(1, "execute")) = <<1, 2, 3>>

\* The value raised by the failing execute is an error object or has a text
\* conversion (String(v) returns).
HasTextConversion(v) == v.t \notin {"bareobject", "throwingobject"}

\* The failed result of saga s names the step whose execute failed.
FailedAtFailingStep(s) == result[s].failedAt = steps[s][idx[s]].name

\* No error that a rollback raised is the error of the failed result.
NoRollbackErrorReported(s) ==
    \A p \in 1..Len(trace) :
        (trace[p].saga = s /\ trace[p].op = "rollbackRaised")
            => result[s].error # trace[p].arg

\* C3 as stated: a failed run reports the error raised by the failing
\* execute and the name of the failing step, whatever the rollbacks did.
FailedReportsTheExecuteError ==
    \A s \in Sagas :
        Failed(s) =>
            /\ DOMAIN result[s] = {"status", "error", "failedAt"}
            /\ FailedAtFailingStep(s)
            /\ InstanceOfError(caught[s]) => result[s].error = caught[s]
            /\ NoRollbackErrorReported(s)

\* C3 amended: the same when the raised value is an error object or can be
\* converted to text; when its text conversion raises, the failed result
\* reports the error of the conversion at "orchestrator" (and run() is
\* rejected, with no failed result, when what the conversion raised cannot
\* be normalized either).  In every case no rollback outcome changes the
\* error, failedAt or the verdict.
FailedReportsTheExecuteErrorIfConvertible ==
    \A s \in Sagas :
        /\ Failed(s) =>
            /\ DOMAIN result[s] = {"status", "error", "failedAt"}
            /\ HasTextConversion(caught[s]) => FailedAtFailingStep(s)
            /\ InstanceOfError(caught[s]) => result[s].error = caught[s]
            /\ ~HasTextConversion(caught[s]) =>
                  /\ result[s].failedAt = "orchestrator"
                  /\ result[s].error.name = "TypeError"
            /\ NoRollbackErrorReported(s)
        /\ (pc[s] = "done" /\ Len(Ops(s, "raised")) > 0) =>
              IF caught[s] = ThrowingObj
              THEN result[s].status = "rejected"
              ELSE Failed(s)

\* A failed run in which one rollback failed and another one succeeded.
FailedReportsTheExecuteErrorWitness ==
    /\ Failed(1)
    /\ HasTextConversion(caught[1])
    /\ Len(Ops(1, "rollbackRaised")) >= 1
    /\ Len(Ops(1, "rollbackReturned")) >= 1

\* What the execute of step i of saga s returned in this run.
ReturnedBy(s, i) ==
    SelectSeq(trace, LAMBDA e : e.saga = s /\ e.op = "returned" /\ e.step = i)[1].arg

StepNames(s) == {steps[s][i].name : i \in 1..Len(steps[s])}

\* C4 as stated: when every execute succeeds, results has exactly one entry
\* per step, holding that step's output, and data is the last step's output.
SuccessOneEntryPerStep ==
    \A s \in Sagas :
        Succeeded(s) =>
            /\ Cardinality(DOMAIN result[s].results) = Len(steps[s])
            /\ \A i \in 1..Len(steps[s]) :
                  /\ steps[s][i].name \in DOMAIN result[s].results
                  /\ result[s].results[steps[s][i].name] = ReturnedBy(s, i)
            /\ Len(steps[s]) > 0 => result[s].data = ReturnedBy(s, Len(steps[s]))

\* C4 amended: when every execute succeeds, results has exactly one entry
\* per distinct step name, holding the output of the last registered step of
\* that name (one entry per step when the names are distinct), and data is
\* the output of the last registered step.
SuccessOneEntryPerName ==
    \A s \in Sagas :
        /\ Succeeded(s) =>
            /\ DOMAIN result[s].results = StepNames(s)
            /\ \A i \in 1..Len(steps[s]) :
                  (\A j \in (i + 1)..Len(steps[s]) : steps[s][j].name # steps[s][i].name)
                      => result[s].results[steps[s][i].name] = ReturnedBy(s, i)
            /\ Cardinality(StepNames(s)) = Len(steps[s])
                  => Cardinality(DOMAIN result[s].results) = Len(steps[s])
            /\ Len(steps[s]) > 0 => result[s].data = ReturnedBy(s, Len(steps[s]))
        /\ (pc[s] = "done" /\ Len(Ops(s, "raised")) = 0) => Succeeded(s)

\* Three steps succeeded, the first and the last under one name with
\* different outputs, the last one returning undefined.
SuccessOneEntryPerNameWitness ==
    /\ Succeeded(1)
    /\ Len(steps[1]) = 3
    /\ steps[1][1].name = steps[1][3].name
    /\ steps[1][2].name # steps[1][1].name
    /\ ReturnedBy(1, 1) = Obj(1)
    /\ ReturnedBy(1, 2) = Null
    /\ result[1].data = Undefined

\* C8: after the rollback of executed step j has failed, the rollback of
\* every older executed step that has one is still invoked, in the order
\* j-1, ..., 1.
RollbackFailureDoesNotAbort ==
    \A s \in Sagas :
        Failed(s) =>
            \A p \in 1..Len(trace) :
                (trace[p].saga = s /\ trace[p].op = "rollbackRaised") =>
                    StepsOf(SelectSeq(SubSeq(trace, p + 1, Len(trace)),
                                      LAMBDA e : e.saga = s /\ e.op = "rollback"))
                        = DescWithRollback(s, trace[p].step - 1)

\* The rollback of step 2 failed and the rollback of step 1 was invoked
\* after that.
RollbackFailureDoesNotAbortWitness ==
    /\ Failed(1)
    /\ \E p \in 1..Len(trace) : \E q \in (p + 1)..Len(trace) :
          /\ trace[p].saga = 1 /\ trace[p].op = "rollbackRaised" /\ trace[p].step = 2
          /\ trace[q].saga = 1 /\ trace[q].op = "rollback" /\ trace[q].step = 1

\* C9: nothing is invoked for an executed step registered without rollback,
\* and the rollback of every earlier executed step that has one is still
\* invoked (once); when no executed step has a rollback, nothing is invoked.
MissingRollbackIsSkipped ==
    \A s \in Sagas :
        /\ \A p \in 1..Len(trace) :
              (trace[p].saga = s /\ trace[p].op = "rollback")
                  => steps[s][trace[p].step].rollback # Undefined
        /\ Failed(s) =>
              \A j \in 1..(idx[s] - 1) :
                  steps[s][j].rollback = Undefined =>
                      \A i \in 1..(j - 1) :
                          steps[s][i].rollback # Undefined =>
                              Len(SelectSeq(trace, LAMBDA e :
                                    e.saga = s /\ e.op = "rollback" /\ e.step = i)) = 1
        /\ (Failed(s) /\ \A j \in 1..(idx[s] - 1) : steps[s][j].rollback = Undefined)
              => Len(Ops(s, "rollback")) = 0

\* Step 3 failed; step 2 has no rollback, step 1 has one and it was invoked.
MissingRollbackIsSkippedWitness ==
    /\ Failed(1)
    /\ idx[1] = 3
    /\ steps[1][2].rollback = Undefined
    /\ steps[1][1].rollback # Undefined
    /\ StepsOf(Ops(1, "rollback")) = <<1>>

\* C10 as stated: whatever value the execute raised, the failed result's
\* error is an error object, the raised one when it is an error object and
\* else one whose message is the text of the raised value, and failedAt is
\* the failing step's name.
FailureIsNormalized ==
    \A s \in Sagas :
        Failed(s) =>
            /\ InstanceOfError(result[s].error)
            /\ FailedAtFailingStep(s)
            /\ InstanceOfError(caught[s]) => result[s].error = caught[s]
            /\ caught[s] = Str("String error") => result[s].error.message = "String error"
            /\ caught[s] = Num(42) => result[s].error.message = "42"

\* C10 amended: the same for every raised value that is an error object or
\* has a text conversion; when the text conversion of the raised value
\* itself raises, a failed result carries the error of that conversion and
\* failedAt is "orchestrator".
FailureIsNormalizedIfConvertible ==
    \A s \in Sagas :
        Failed(s) =>
            /\ InstanceOfError(result[s].error)
            /\ InstanceOfError(caught[s]) =>
                  (result[s].error = caught[s] /\ FailedAtFailingStep(s))
            /\ caught[s] = Str("String error") =>
                  (result[s].error = Err("String error") /\ FailedAtFailingStep(s))
            /\ caught[s] = Num(42) =>
                  (result[s].error = Err("42") /\ FailedAtFailingStep(s))
            /\ ~HasTextConversion(caught[s]) =>
                  /\ result[s].error =
                        TypeErr("Cannot convert object to primitive value")
                  /\ result[s].failedAt = "orchestrator"

\* The text "String error" was raised and the failed result carries it.
FailureIsNormalizedWitness ==
    /\ Failed(1)
    /\ caught[1] = Str("String error")
    /\ result[1].error.message = "String error"
    /\ result[1].failedAt = steps[1][idx[1]].name

\* C6: invoking the rollback of the success value invokes the rollbacks of
\* the steps executed in that run that have one, in reverse order of
\* execution, and no other.
BoundRollbackCompensates ==
    caller.called =>
        StepsOf(Ops(1, "rollback")) = DescWithRollback(1, Len(steps[1]))

\* The nested step of saga 1 succeeded (its record is in executedSteps).
NestedStepExecuted ==
    \E j \in 1..Len(executedSteps[1]) :
        /\ executedSteps[1][j].rollback # Undefined
        /\ executedSteps[1][j].rollback.kind = "nested"

\* C7: when the outer run has failed after its nested step succeeded, the
\* rollbacks of the inner saga's steps were all invoked, in reverse order of
\* the inner steps' execution, after the outer step's rollback was invoked.
NestedCompensationCascades ==
    (Failed(1) /\ NestedStepExecuted) =>
        /\ StepsOf(Ops(2, "rollback")) = DescWithRollback(2, Len(steps[2]))
        /\ \A q \in 1..Len(trace) :
              (trace[q].saga = 2 /\ trace[q].op = "rollback") =>
                  \E p \in 1..(q - 1) :
                      /\ trace[p].saga = 1
                      /\ trace[p].op = "rollback"
                      /\ steps[1][trace[p].step].execute.kind = "nested"

\* The last of the steps 1..k of saga s registered under name n.
LastNamed(s, n, k) ==
    CHOOSE j \in 1..k :
        /\ steps[s][j].name = n
        /\ \A j2 \in (j + 1)..k : steps[s][j2].name # n

\* What the steps 1..k of saga s returned, by name (the later step's output
\* where two share a name).
OutputsByName(s, k) ==
    [n \in {steps[s][j].name : j \in 1..k} |-> ReturnedBy(s, LastNamed(s, n, k))]

\* C11: the context handed to step i holds exactly the outputs of the steps
\* 1..i-1, by name, and whenever that view is read it shows neither the
\* output of step i nor that of a step executed after the view was made.
ContextIsSnapshot ==
    \A s \in Sagas : \A p \in 1..Len(trace) :
        (trace[p].saga = s /\ trace[p].op = "execute") =>
            Deref(trace[p].ctx.results) = OutputsByName(s, trace[p].step - 1)

\* C12: a saga without steps, once run, has invoked no caller-supplied
\* operation and returned success with empty results and undefined data.
ZeroStepsSucceed ==
    \A s \in Sagas :
        (pc[s] = "done" /\ Len(steps[s]) = 0) =>
            /\ result[s] = [status |-> "success", data |-> Undefined,
                            results |-> EmptyMap]
            /\ DOMAIN result[s].results = {}
            /\ \A p \in 1..Len(trace) : trace[p].saga # s

\* The caller ran a saga to which no step was appended.
ZeroStepsSucceedWitness ==
    /\ pc[1] = "done"
    /\ Len(steps[1]) = 0
    /\ Succeeded(1)

RunIsTotal ==
    \A s \in Sagas :
        pc[s] = "done" =>
            /\ result[s].status \in {"success", "failed"}
            /\ (Len(Ops(s, "raised")) > 0 /\ ~HasTextConversion(caught[s])) =>
                  result[s].failedAt = "orchestrator"

\* The caller-supplied operations of the run of saga s: invocations and
\* completions, in the order they happened.
RunTrace(s) == SelectSeq(trace, LAMBDA e : e.saga = s)

Completes(inv, e) ==
    /\ e.step = inv.step
    /\ e.op \in (IF inv.op = "execute" THEN {"returned", "raised"}
                 ELSE {"rollbackReturned", "rollbackRaised"})

\* C16: within one run at most one caller-supplied operation is in flight:
\* what follows the invocation of an execute or of a rollback in that run is
\* its own completion, and what precedes it is a completion.
OneOperationInFlight ==
    \A s \in Sagas :
        LET T == RunTrace(s) IN
        \A p \in 1..Len(T) :
            T[p].op \in {"execute", "rollback"} =>
                /\ p < Len(T) => Completes(T[p], T[p + 1])
                /\ p > 1 => T[p - 1].op \notin {"execute", "rollback"}
                /\ p = Len(T) => pc[s] \in {"awaitExec", "awaitRb"}

\* A rollback has been invoked after two executes returned and one raised,
\* and is pending.
OneOperationInFlightWitness ==
    /\ pc[1] = "awaitRb"
    /\ Len(Ops(1, "returned")) = 2
    /\ Len(Ops(1, "raised")) = 1
    /\ Len(Ops(1, "rollbackReturned")) + Len(Ops(1, "rollbackRaised")) = 1

\* C17: when run() has returned failed, the rollback of every executed step
\* that has one has been invoked and has completed, and no compensation of
\* that run is pending.
CompensationBeforeVerdict ==
    \A s \in Sagas :
        Failed(s) =>
            /\ pc[s] = "done"
            /\ \A j \in 1..Len(executedSteps[s]) :
                  Truthy(executedSteps[s][j].rollback) =>
                      \E p, q \in 1..Len(trace) :
                          /\ p < q
                          /\ trace[p].saga = s /\ trace[q].saga = s
                          /\ trace[p].op = "rollback"
                          /\ trace[p].step = executedSteps[s][j].rollback.step
                          /\ Completes(trace[p], trace[q])

\* A failed run whose compensation had one rollback succeed and one fail.
CompensationBeforeVerdictWitness ==
    /\ Failed(1)
    /\ Len(Ops(1, "rollbackReturned")) = 1
    /\ Len(Ops(1, "rollbackRaised")) = 1

\* C18: every rollback is invoked with the output that the execute of the
\* same step returned in this run, also when two executed steps share a name.
RollbackGetsOwnOutput ==
    \A s \in Sagas : \A p \in 1..Len(trace) :
        (trace[p].saga = s /\ trace[p].op = "rollback") =>
            trace[p].arg = ReturnedBy(s, trace[p].step)

\* Two steps of one name returned different outputs and both were rolled
\* back.
RollbackGetsOwnOutputWitness ==
    /\ Len(steps[1]) = 3
    /\ steps[1][1].name = steps[1][2].name
    /\ Len(Ops(1, "rollback")) = 2
    /\ Ops(1, "rollback")[1].arg # Ops(1, "rollback")[2].arg
    /\ Ops(1, "rollback")[2].arg # steps[1][1].input

ExecutorIsOnlyWriter ==
    \A s \in Sagas :
        /\ (trace # <<>> /\ trace[Len(trace)].saga = s
              /\ trace[Len(trace)].op = "execute") =>
               Deref(trace[Len(trace)].ctx.results)
                   = OutputsByName(s, trace[Len(trace)].step - 1)
        /\ Succeeded(s) => result[s].results = OutputsByName(s, Len(steps[s]))

\* C14: when two step() calls are made through the same builder reference,
\* the chain each returns does not contain the step the other appended, and
\* a run of it does not execute that step.
DivergentChainsDoNotAlias ==
    \A s \in Sagas : \A c, d \in 1..Len(chain[s]) :
        (c # d /\ chain[s][c].via = chain[s][d].via) =>
            LET b == chain[s][c].ret.saga IN
            /\ \A j \in 1..Len(steps[b]) : steps[b][j] # steps[s][d]
            /\ \A p \in 1..Len(trace) :
                  (trace[p].op = "execute" /\ trace[p].saga = b) =>
                      steps[b][trace[p].step] # steps[s][d]

\* Two registered steps of saga s share a name.
HasDuplicateName(s) ==
    \E i, j \in 1..Len(steps[s]) : i < j /\ steps[s][i].name = steps[s][j].name

\* C21: steps that share a name are registered and run without rejection;
\* when all executes succeed the run is a success, results holds under a
\* shared name the output of the later step, and results has fewer entries
\* than there are executed steps.
LastWriteWins ==
    \A s \in Sagas :
        HasDuplicateName(s) =>
            /\ (pc[s] = "done" /\ Len(Ops(s, "raised")) = 0) => Succeeded(s)
            /\ Succeeded(s) =>
                /\ Len(executedSteps[s]) = Len(steps[s])
                /\ Cardinality(DOMAIN result[s].results) < Len(executedSteps[s])
                /\ \A i, j \in 1..Len(steps[s]) :
                      (i < j /\ steps[s][i].name = steps[s][j].name) =>
                          result[s].results[steps[s][i].name]
                              = ReturnedBy(s, LastNamed(s, steps[s][i].name,
                                                        Len(steps[s])))

\* Two steps of one name succeeded with different outputs; results has the
\* single entry of the second.
LastWriteWinsWitness ==
    /\ Succeeded(1)
    /\ Len(steps[1]) = 2
    /\ steps[1][1].name = steps[1][2].name
    /\ ReturnedBy(1, 1) = Obj(1)
    /\ ReturnedBy(1, 2) = Null
    /\ result[1].results = (steps[1][2].name :> Null)

\* The reports of the compensation of saga s, in order.
ReportsOf(s) == SelectSeq(reports, LAMBDA r : r.saga = s)

\* C23: the reports of a run are, in order, one per failed rollback, each
\* with the name of the step and the error its rollback raised; a rollback
\* that succeeds and a step without rollback leave no report.
RollbackFailuresReported ==
    \A s \in Sagas :
        LET R == Ops(s, "rollbackRaised") IN
        ReportsOf(s) = [p \in 1..Len(R) |->
                           [saga |-> s, name |-> steps[s][R[p].step].name,
                            error |-> R[p].arg]]

\* A compensation over two executed steps, one without rollback and one
\* whose rollback failed, is over: one report, with the name of the latter.
RollbackFailuresReportedWitness ==
    /\ pc[1] = "done"
    /\ Len(executedSteps[1]) = 2
    /\ executedSteps[1][2].rollback = Undefined
    /\ executedSteps[1][1].name # executedSteps[1][2].name
    /\ Len(Ops(1, "rollbackRaised")) = 1
    /\ reports = <<[saga |-> 1, name |-> executedSteps[1][1].name,
                    error |-> RollbackError]>>

\* C24: as long as no execute of a run has failed, no rollback of that run is
\* invoked and the compensation is not entered; a successful run has invoked
\* none.
NoRollbackWithoutFailure ==
    \A s \in Sagas :
        /\ Len(Ops(s, "raised")) = 0 =>
              /\ Len(Ops(s, "rollback")) = 0
              /\ pc[s] \notin {"rb", "awaitRb"}
        /\ Succeeded(s) => \A p \in 1..Len(trace) :
              trace[p].saga = s => trace[p].op \in {"execute", "returned"}

\* Three steps with a rollback each succeeded and the caller has used the
\* result.
NoRollbackWithoutFailureWitness ==
    /\ Succeeded(1)
    /\ Len(steps[1]) = 3
    /\ \A j \in 1..3 : steps[1][j].rollback # Undefined
    /\ caller.called

Running(s) == pc[s] \in {"loop", "awaitExec", "rb", "awaitRb"}

\* The compensation pass of saga s has gone over every record of the list it
\* was given.
CompensationRanOverFullList(s) ==
    /\ rbIdx[s] = 0
    /\ \A j \in 1..Len(executedSteps[s]) :
          Truthy(executedSteps[s][j].rollback) =>
              \E p \in 1..Len(trace) :
                  /\ trace[p].saga = s /\ trace[p].op = "rollback"
                  /\ trace[p].step = executedSteps[s][j].rollback.step

\* C22: when every invoked execute and rollback eventually completes, a run
\* that was started eventually returns a success or failed result; a
\* compensation pass that has ended has gone over the full list; and a run
\* that has not returned is either waiting for an execute or a rollback to
\* complete or has a step of its own to take.
RunEventuallyReturns ==
    /\ \A s \in Sagas :
          Running(s) ~> (pc[s] = "done" /\ result[s].status \in {"success", "failed"})
    /\ [](\A s \in Sagas :
            /\ (pc[s] = "done" /\ Len(Ops(s, "raised")) > 0)
                  => CompensationRanOverFullList(s)
            /\ pc[s] \in {"loop", "rb"} => ENABLED EngineStep(s))

\* What holds of C22 in every run: a started run eventually settles (returns
\* or is rejected), with the same two safety parts.
RunEventuallySettles ==
    /\ \A s \in Sagas : Running(s) ~> pc[s] = "done"
    /\ [](\A s \in Sagas :
            /\ (pc[s] = "done" /\ Len(Ops(s, "raised")) > 0)
                  => CompensationRanOverFullList(s)
            /\ pc[s] \in {"loop", "rb"} => ENABLED EngineStep(s))

=============================================================================
